---- MODULE Spec2Model ----
(***************************************************************************)
(* The HTTP request executor of src-tauri/src/lib.rs: http_request, its    *)
(* authentication negotiation (probe, digest, basic fallback), the digest  *)
(* calculation generate_digest_auth and the normalisation of the reply.    *)
(*                                                                         *)
(* A Rust String is modelled as a sequence of one-character strings, so    *)
(* that case conversion, prefix tests, splitting, trimming and encoding    *)
(* are computed character by character as the code computes them.          *)
(* Option<T> is the empty set (None) or a singleton (Some(v)).             *)
(***************************************************************************)
EXTENDS Integers, Sequences, FiniteSets, TLC

----------------------------------------------------------------------------
(* Characters and text *)

\* The printable ASCII characters, in code order: AsciiPrintable[i] has code 31 + i.
\* "<grave>" stands for the grave accent (code 96).
AsciiPrintable ==
    <<" ","!","\"","#","$","%","&","'","(",")","*","+",",","-",".","/","0","1","2","3","4","5","6","7","8","9",":",";","<","=",">","?","@","A","B","C","D","E","F","G","H","I","J","K","L","M","N","O","P","Q","R","S","T","U","V","W","X","Y","Z","[","\\","]","^","_","<grave>","a","b","c","d","e","f","g","h","i","j","k","l","m","n","o","p","q","r","s","t","u","v","w","x","y","z","{","|","}","~">>

LowerLetters ==
    <<"a","b","c","d","e","f","g","h","i","j","k","l","m","n","o","p","q","r","s","t","u","v","w","x","y","z">>

UpperLetters ==
    <<"A","B","C","D","E","F","G","H","I","J","K","L","M","N","O","P","Q","R","S","T","U","V","W","X","Y","Z">>

Digits ==
    <<"0","1","2","3","4","5","6","7","8","9">>

\* A byte of a header value that is not ASCII text (obs-text, here 0xE9).
NonAsciiByte == "<E9>"

Has(seq, x) == \E i \in 1..Len(seq) : seq[i] = x

IndexOf(seq, x) == CHOOSE i \in 1..Len(seq) : seq[i] = x

None == {}

Some(v) == {v}

IsSome(o) == o # {}

Unwrap(o) == CHOOSE v \in o : TRUE

\* char::to_uppercase / to_lowercase on the ASCII letters; other characters are kept.
UpperChar(ch) == IF Has(LowerLetters, ch) THEN UpperLetters[IndexOf(LowerLetters, ch)] ELSE ch

LowerChar(ch) == IF Has(UpperLetters, ch) THEN LowerLetters[IndexOf(UpperLetters, ch)] ELSE ch

MapChars(s, upper) ==
    [i \in 1..Len(s) |-> IF upper THEN UpperChar(s[i]) ELSE LowerChar(s[i])]

\* str::to_uppercase
to_uppercase(s) == MapChars(s, TRUE)

\* The canonical (lower-case) form in which the http crate stores a header name.
to_lowercase(s) == MapChars(s, FALSE)

\* str::starts_with
starts_with(s, p) == Len(s) >= Len(p) /\ SubSeq(s, 1, Len(p)) = p

\* str::replace(pat, ""): every non-overlapping occurrence of pat is removed, left to right.
RECURSIVE RemoveAll(_, _)
RemoveAll(s, pat) ==
    LET hits == {i \in 1..(Len(s) - Len(pat) + 1) : SubSeq(s, i, i + Len(pat) - 1) = pat}
        first == CHOOSE i \in hits : \A j \in hits : i <= j
    IN IF hits = {} THEN s
       ELSE SubSeq(s, 1, first - 1) \o RemoveAll(SubSeq(s, first + Len(pat), Len(s)), pat)

\* The position of the first ch in s at or after i, or 0.
FindChar(s, ch, i) ==
    LET hits == {j \in i..Len(s) : s[j] = ch}
    IN IF hits = {} THEN 0 ELSE CHOOSE j \in hits : \A k \in hits : j <= k

\* str::split(ch): the segments between the occurrences of ch (at least one segment).
RECURSIVE Split(_, _)
Split(s, ch) ==
    LET i == FindChar(s, ch, 1)
    IN IF i = 0 THEN <<s>>
       ELSE <<SubSeq(s, 1, i - 1)>> \o Split(SubSeq(s, i + 1, Len(s)), ch)

\* str::split_once(ch): None, or the texts before and after the first ch.
split_once(s, ch) ==
    LET i == FindChar(s, ch, 1)
    IN IF i = 0 THEN None ELSE Some(<<SubSeq(s, 1, i - 1), SubSeq(s, i + 1, Len(s))>>)

IsWhitespace(ch) == ch \in {" ", "\t", "\n", "\r"}

RECURSIVE TrimStartBy(_, _)
TrimStartBy(s, quote) ==
    IF s # <<>> /\ (IF quote THEN Head(s) = "\"" ELSE IsWhitespace(Head(s)))
    THEN TrimStartBy(Tail(s), quote) ELSE s

RECURSIVE TrimEndBy(_, _)
TrimEndBy(s, quote) ==
    IF s # <<>> /\ (IF quote THEN s[Len(s)] = "\"" ELSE IsWhitespace(s[Len(s)]))
    THEN TrimEndBy(SubSeq(s, 1, Len(s) - 1), quote) ELSE s

\* str::trim: all leading and trailing whitespace is removed.
trim(s) == TrimEndBy(TrimStartBy(s, FALSE), FALSE)

\* str::trim_matches('"'): every leading and every trailing double quote is removed.
trim_matches_quote(s) == TrimEndBy(TrimStartBy(s, TRUE), TRUE)

----------------------------------------------------------------------------
(* Maps (std::collections::HashMap) as functions *)

EmptyMap == [k \in {} |-> <<>>]

\* HashMap::insert: the value written last replaces an earlier one for the same key.
Insert(m, k, v) == [x \in (DOMAIN m) \cup {k} |-> IF x = k THEN v ELSE m[x]]

\* HashMap::get
Get(m, k) == IF k \in DOMAIN m THEN Some(m[k]) ELSE None

\* Option::unwrap_or(&"")
unwrap_or_empty(o) == IF IsSome(o) THEN Unwrap(o) ELSE <<>>

----------------------------------------------------------------------------
(* url::Url::parse, for absolute http and https URLs written with characters  *)
(* that need no percent-encoding; any other text is a parse error.            *)

SchemeHttp == <<"h","t","t","p",":","/","/">>

SchemeHttps == <<"h","t","t","p","s",":","/","/">>

AfterScheme(url) ==
    IF starts_with(url, SchemeHttp) THEN Some(SubSeq(url, Len(SchemeHttp) + 1, Len(url)))
    ELSE IF starts_with(url, SchemeHttps) THEN Some(SubSeq(url, Len(SchemeHttps) + 1, Len(url)))
    ELSE None

\* The first position at or after i of a character of chars in s, or Len(s) + 1.
RECURSIVE FirstOf(_, _, _)
FirstOf(s, chars, i) ==
    IF i > Len(s) \/ s[i] \in chars THEN i ELSE FirstOf(s, chars, i + 1)

\* Result<Url, ParseError>: ok, and the path() and query() of the parsed URL.
UrlParse(url) ==
    LET after == AfterScheme(url)
        rest == Unwrap(after)
        hostEnd == FirstOf(rest, {"/", "?", "#"}, 1)
        pathEnd == FirstOf(rest, {"?", "#"}, hostEnd)
        fragAt == FirstOf(rest, {"#"}, pathEnd)
    IN IF after = None \/ hostEnd = 1 \/ \E i \in 1..Len(url) : ~Has(AsciiPrintable, url[i]) \/ url[i] = " "
       THEN [ok |-> FALSE]
       ELSE [ok |-> TRUE,
             path |-> IF pathEnd = hostEnd THEN <<"/">> ELSE SubSeq(rest, hostEnd, pathEnd - 1),
             query |-> IF pathEnd <= Len(rest) /\ rest[pathEnd] = "?"
                       THEN Some(SubSeq(rest, pathEnd + 1, fragAt - 1)) ELSE None]

----------------------------------------------------------------------------
(* Encodings *)

ByteOf(ch) == 31 + IndexOf(AsciiPrintable, ch)

CharOf(byte) == AsciiPrintable[byte - 31]

Base64Alphabet ==
    <<"A","B","C","D","E","F","G","H","I","J","K","L","M","N","O","P","Q","R","S","T","U","V","W","X","Y","Z","a","b","c","d","e","f","g","h","i","j","k","l","m","n","o","p","q","r","s","t","u","v","w","x","y","z","0","1","2","3","4","5","6","7","8","9","+","/">>

B64(n) == Base64Alphabet[n + 1]

\* base64 (standard alphabet, padded) of a text of printable ASCII characters.
RECURSIVE Base64Encode(_)
Base64Encode(s) ==
    IF s = <<>> THEN <<>>
    ELSE LET b1 == ByteOf(s[1])
             b2 == IF Len(s) >= 2 THEN ByteOf(s[2]) ELSE 0
             b3 == IF Len(s) >= 3 THEN ByteOf(s[3]) ELSE 0
         IN <<B64(b1 \div 4), B64((b1 % 4) * 16 + (b2 \div 16))>>
            \o (IF Len(s) >= 2 THEN <<B64((b2 % 16) * 4 + (b3 \div 64))>> ELSE <<"=">>)
            \o (IF Len(s) >= 3 THEN <<B64(b3 % 64)>> ELSE <<"=">>)
            \o (IF Len(s) > 3 THEN Base64Encode(SubSeq(s, 4, Len(s))) ELSE <<>>)

HexDigits == <<"0","1","2","3","4","5","6","7","8","9","a","b","c","d","e","f">>

RECURSIVE StripLeadingZeros(_)
StripLeadingZeros(nibbles) ==
    IF Len(nibbles) > 1 /\ Head(nibbles) = 0 THEN StripLeadingZeros(Tail(nibbles)) ELSE nibbles

\* format!("{:x}", v) of a u64 given by its sixteen hexadecimal digits (most significant
\* first): lower-case digits without leading zeros.
FormatHex(nibbles) ==
    LET n == StripLeadingZeros(nibbles) IN [i \in 1..Len(n) |-> HexDigits[n[i] + 1]]

\* format!("{:x}", md5::compute(s)) as the state machine carries it: MD5 is a fixed
\* function of its input, taken here as injective, and the digest of s is written md5(s).
\* Md5Hex below computes the digits themselves.
md5_hex(s) == <<"m","d","5","(">> \o s \o <<")">>

\* MD5 (RFC 1321): the sine-derived constants and the per-step rotations.
MD5_K == <<<<55146,42104>>, <<59591,46934>>, <<9248,28891>>, <<49597,52974>>, <<62844,4015>>, <<18311,50730>>, <<43056,17939>>, <<64838,38145>>, <<27008,39128>>, <<35652,63407>>, <<65535,23473>>, <<35164,55230>>, <<27536,4386>>, <<64920,29075>>, <<42617,17294>>, <<18868,2081>>, <<63006,9570>>, <<49216,45888>>, <<9822,23121>>, <<59830,51114>>, <<54831,4189>>, <<580,5203>>, <<55457,59009>>, <<59347,64456>>, <<8673,52710>>, <<49975,2006>>, <<62677,3463>>, <<17754,5357>>, <<43491,59653>>, <<64751,41976>>, <<26479,729>>, <<36138,19594>>, <<65530,14658>>, <<34673,63105>>, <<28061,24866>>, <<64997,14348>>, <<42174,59972>>, <<19422,53161>>, <<63163,19296>>, <<48831,48240>>, <<10395,32454>>, <<60065,10234>>, <<54511,12421>>, <<1160,7429>>, <<55764,53305>>, <<59099,39397>>, <<8098,31992>>, <<50348,22117>>, <<62505,8772>>, <<17194,65431>>, <<43924,9127>>, <<64659,41017>>, <<25947,22979>>, <<36620,52370>>, <<65519,62589>>, <<34180,24017>>, <<28584,32335>>, <<65068,59104>>, <<41729,17172>>, <<19976,4513>>, <<63315,32386>>, <<48442,62005>>, <<10967,53947>>, <<60294,54161>>>>

MD5_S == <<7, 12, 17, 22, 7, 12, 17, 22, 7, 12, 17, 22, 7, 12, 17, 22, 5, 9, 14, 20, 5, 9, 14, 20, 5, 9, 14, 20, 5, 9, 14, 20, 4, 11, 16, 23, 4, 11, 16, 23, 4, 11, 16, 23, 4, 11, 16, 23, 6, 10, 15, 21, 6, 10, 15, 21, 6, 10, 15, 21, 6, 10, 15, 21>>

\* 32-bit words are pairs <<high 16 bits, low 16 bits>>.
Pow2(n) == 2^n

WAdd(a, b) == LET lo == a[2] + b[2] IN <<(a[1] + b[1] + lo \div 65536) % 65536, lo % 65536>>

Rotl16(w, s) == IF s = 0 THEN w ELSE
    <<((w[1] * Pow2(s)) % 65536) + (w[2] \div Pow2(16 - s)),
      ((w[2] * Pow2(s)) % 65536) + (w[1] \div Pow2(16 - s))>>

WRotl(w, s) == IF s >= 16 THEN Rotl16(<<w[2], w[1]>>, s - 16) ELSE Rotl16(w, s)

RECURSIVE Bits3(_, _, _, _, _)
Bits3(f, x, y, z, n) ==
    IF n = 0 THEN 0
    ELSE LET xb == x % 2
             yb == y % 2
             zb == z % 2
             r == CASE f = 0 -> IF xb = 1 THEN yb ELSE zb
                    [] f = 1 -> IF zb = 1 THEN xb ELSE yb
                    [] f = 2 -> (xb + yb + zb) % 2
                    [] f = 3 -> (yb + (IF xb = 1 \/ zb = 0 THEN 1 ELSE 0)) % 2
         IN r + 2 * Bits3(f, x \div 2, y \div 2, z \div 2, n - 1)

WMix(f, x, y, z) == <<Bits3(f, x[1], y[1], z[1], 16), Bits3(f, x[2], y[2], z[2], 16)>>

MsgIndex(i) == CASE i \div 16 = 0 -> i
                 [] i \div 16 = 1 -> (5 * i + 1) % 16
                 [] i \div 16 = 2 -> (3 * i + 5) % 16
                 [] i \div 16 = 3 -> (7 * i) % 16

Md5Step(st, M, i) ==
    <<st[4],
      WAdd(st[2], WRotl(WAdd(WAdd(st[1], WMix(i \div 16, st[2], st[3], st[4])),
                             WAdd(MD5_K[i + 1], M[MsgIndex(i) + 1])), MD5_S[i + 1])),
      st[2], st[3]>>

\* The sixty-four steps on one block (Len(st) makes each step's state a value before
\* the next step uses it).
RECURSIVE Md5Rounds(_, _, _)
Md5Rounds(st, M, i) == IF Len(st) # 4 \/ i = 64 THEN st ELSE Md5Rounds(Md5Step(st, M, i), M, i + 1)

\* The message padded to whole 64-byte blocks; bytes is a sequence of 0..255.
Md5Pad(bytes) ==
    LET n == Len(bytes)
        z == (55 - n) % 64
        bits == 8 * n
    IN bytes \o <<128>> \o [i \in 1..z |-> 0]
       \o <<bits % 256, (bits \div 256) % 256, (bits \div 65536) % 256, 0, 0, 0, 0, 0>>

Md5Words(p, blk) ==
    [j \in 1..16 |-> LET o == 64 * blk + 4 * (j - 1)
                     IN <<p[o + 4] * 256 + p[o + 3], p[o + 2] * 256 + p[o + 1]>>]

RECURSIVE Md5Blocks(_, _, _)
Md5Blocks(st, p, blk) ==
    IF 64 * blk >= Len(p) THEN st
    ELSE LET r == Md5Rounds(st, Md5Words(p, blk), 0)
         IN Md5Blocks(<<WAdd(st[1], r[1]), WAdd(st[2], r[2]), WAdd(st[3], r[3]), WAdd(st[4], r[4])>>, p, blk + 1)

HexByte(b) == <<HexDigits[(b \div 16) + 1], HexDigits[(b % 16) + 1]>>

WHexLE(w) == HexByte(w[2] % 256) \o HexByte(w[2] \div 256) \o HexByte(w[1] % 256) \o HexByte(w[1] \div 256)

\* The thirty-two lower-case hexadecimal digits of the MD5 digest (RFC 1321) of a text
\* of printable ASCII characters: the value format!("{:x}", md5::compute(s)) prints.
Md5Hex(s) ==
    LET st == Md5Blocks(<<<<26437, 8961>>, <<61389, 43913>>, <<39098, 56574>>, <<4146, 21622>>>>,
                        Md5Pad([i \in 1..Len(s) |-> ByteOf(s[i])]), 0)
    IN WHexLE(st[1]) \o WHexLE(st[2]) \o WHexLE(st[3]) \o WHexLE(st[4])

----------------------------------------------------------------------------
(* generate_digest_auth *)

DigestSpace == <<"D","i","g","e","s","t"," ">>

\* The loop over auth_str.split(','): each part with a '=' is inserted under its
\* trimmed key, its value trimmed of whitespace and then of double quotes.
RECURSIVE InsertParts(_, _)
InsertParts(parts, challenge) ==
    IF parts = <<>> THEN challenge
    ELSE LET part == trim(Head(parts))
             kv == split_once(part, "=")
         IN InsertParts(Tail(parts),
                IF kv = None THEN challenge
                ELSE Insert(challenge, trim(Unwrap(kv)[1]),
                            trim_matches_quote(trim(Unwrap(kv)[2]))))

\* The challenge map parsed from the WWW-Authenticate value.
ParseChallenge(www_auth) ==
    InsertParts(Split(RemoveAll(www_auth, DigestSpace), ","), EmptyMap)

\* The uri of the digest: the URL's path, then '?' and the query when there is one.
DigestUri(parsed) ==
    IF IsSome(parsed.query) THEN parsed.path \o <<"?">> \o Unwrap(parsed.query)
    ELSE parsed.path

Colon == <<":">>

\* Mutant of NonceCount: the count written is that of a second request.
NonceCountOfSecondRequest == <<"0","0","0","0","0","0","0","2">>

NonceCount == <<"0","0","0","0","0","0","0","1">>

K_realm == <<"r","e","a","l","m">>

K_nonce == <<"n","o","n","c","e">>

K_qop == <<"q","o","p">>

K_opaque == <<"o","p","a","q","u","e">>

\* Mutant of Ha1Input: the password is written before the realm.
Ha1InputPasswordBeforeRealm(username, realm, password) ==
    username \o Colon \o password \o Colon \o realm

\* ha1_input, line 61.
Ha1Input(username, realm, password) == username \o Colon \o realm \o Colon \o password

\* ha2_input, line 65.
Ha2Input(method, uri) == method \o Colon \o uri

\* response_input: line 70 when qop is not empty, line 73 otherwise.
ResponseInput(ha1, nonce, nc, cnonce, qop, ha2) ==
    IF qop # <<>>
    THEN ha1 \o Colon \o nonce \o Colon \o nc \o Colon \o cnonce \o Colon \o qop \o Colon \o ha2
    ELSE ha1 \o Colon \o nonce \o Colon \o ha2

DigestResponse(ha1, nonce, nc, cnonce, qop, ha2) ==
    md5_hex(ResponseInput(ha1, nonce, nc, cnonce, qop, ha2))

\* Mutant of DigestHeader: an opaque directive with an empty value is left out.
DigestHeaderSkippingEmptyOpaque(username, realm, nonce, uri, response, qop, nc, cnonce, opaque) ==
    <<"D","i","g","e","s","t"," ","u","s","e","r","n","a","m","e","=","\"">> \o username
    \o <<"\"",","," ","r","e","a","l","m","=","\"">> \o realm
    \o <<"\"",","," ","n","o","n","c","e","=","\"">> \o nonce
    \o <<"\"",","," ","u","r","i","=","\"">> \o uri
    \o <<"\"",","," ","r","e","s","p","o","n","s","e","=","\"">> \o response \o <<"\"">>
    \o (IF qop # <<>>
        THEN <<","," ","q","o","p","=">> \o qop \o <<","," ","n","c","=">> \o nc
             \o <<","," ","c","n","o","n","c","e","=","\"">> \o cnonce \o <<"\"">>
        ELSE <<>>)
    \o (IF IsSome(opaque) /\ Unwrap(opaque) # <<>>
        THEN <<","," ","o","p","a","q","u","e","=","\"">> \o Unwrap(opaque) \o <<"\"">>
        ELSE <<>>)

\* The Authorization value assembled from the parts.
DigestHeader(username, realm, nonce, uri, response, qop, nc, cnonce, opaque) ==
    <<"D","i","g","e","s","t"," ","u","s","e","r","n","a","m","e","=","\"">> \o username
    \o <<"\"",","," ","r","e","a","l","m","=","\"">> \o realm
    \o <<"\"",","," ","n","o","n","c","e","=","\"">> \o nonce
    \o <<"\"",","," ","u","r","i","=","\"">> \o uri
    \o <<"\"",","," ","r","e","s","p","o","n","s","e","=","\"">> \o response \o <<"\"">>
    \o (IF qop # <<>>
        THEN <<","," ","q","o","p","=">> \o qop \o <<","," ","n","c","=">> \o nc
             \o <<","," ","c","n","o","n","c","e","=","\"">> \o cnonce \o <<"\"">>
        ELSE <<>>)
    \o (IF IsSome(opaque)
        THEN <<","," ","o","p","a","q","u","e","=","\"">> \o Unwrap(opaque) \o <<"\"">>
        ELSE <<>>)

\* Result<String, String> of generate_digest_auth; random is the value drawn by
\* rand::random::<u64>() in this call.
generate_digest_auth(username, password, method, url, www_auth, random) ==
    LET challenge == ParseChallenge(www_auth)
        realm == unwrap_or_empty(Get(challenge, K_realm))
        nonce == unwrap_or_empty(Get(challenge, K_nonce))
        qop == unwrap_or_empty(Get(challenge, K_qop))
        url_obj == UrlParse(url)
        uri == DigestUri(url_obj)
        cnonce == FormatHex(random)
        nc == NonceCount
        ha1 == md5_hex(Ha1Input(username, realm, password))
        ha2 == md5_hex(Ha2Input(method, uri))
        response == DigestResponse(ha1, nonce, nc, cnonce, qop, ha2)
    IN IF ~url_obj.ok THEN [ok |-> FALSE, error |-> "Invalid URL"]
       ELSE [ok |-> TRUE,
             value |-> DigestHeader(username, realm, nonce, uri, response, qop, nc, cnonce,
                                    Get(challenge, K_opaque))]

----------------------------------------------------------------------------
(* reqwest::RequestBuilder *)

AUTHORIZATION == <<"a","u","t","h","o","r","i","z","a","t","i","o","n">>

WWW_AUTHENTICATE == <<"w","w","w","-","a","u","t","h","e","n","t","i","c","a","t","e">>

\* A header name is a non-empty token; a header value holds no control character.
HeaderNameOk(name) ==
    /\ name # <<>>
    /\ \A i \in 1..Len(name) :
          \/ Has(LowerLetters, name[i]) \/ Has(UpperLetters, name[i]) \/ Has(Digits, name[i])
          \/ name[i] \in {"-", "_", ".", "!", "#", "$", "%", "&", "'", "*", "+", "^", "|", "~"}

HeaderValueOk(value) ==
    \A i \in 1..Len(value) :
        Has(AsciiPrintable, value[i]) \/ value[i] = "\t" \/ value[i] = NonAsciiByte

\* HeaderValue::to_str: Ok only when every byte is visible ASCII, a space or a tab.
to_str(value) ==
    IF \A i \in 1..Len(value) : Has(AsciiPrintable, value[i]) \/ value[i] = "\t"
    THEN [ok |-> TRUE, value |-> value] ELSE [ok |-> FALSE]

\* client.get(url), .post(url), .put(url), .delete(url): the builder holds the request,
\* or an error when the URL cannot be parsed.
NewBuilder(verb, url) ==
    [method |-> verb, url |-> url, headers |-> <<>>, body |-> None, err |-> ~UrlParse(url).ok]

\* RequestBuilder::header: the pair is appended to the request's headers under the
\* lower-case name; an invalid name or value turns the builder into an error.
header(b, key, value) ==
    IF b.err THEN b
    ELSE IF ~HeaderNameOk(key) \/ ~HeaderValueOk(value) THEN [b EXCEPT !.err = TRUE]
    ELSE [b EXCEPT !.headers = Append(@, <<to_lowercase(key), value>>)]

\* RequestBuilder::body
with_body(b, text) == IF b.err THEN b ELSE [b EXCEPT !.body = Some(text)]

BasicSpace == <<"B","a","s","i","c"," ">>

\* Mutant of basic_auth: the password is left out of the encoded credentials.
basic_auth_username_only(b, username, password) ==
    header(b, AUTHORIZATION, BasicSpace \o Base64Encode(username \o Colon))

\* RequestBuilder::basic_auth(username, Some(password))
basic_auth(b, username, password) ==
    header(b, AUTHORIZATION, BasicSpace \o Base64Encode(username \o Colon \o password))

\* Mutant of try_clone: the clone sent as the probe has lost the body.
try_clone_without_body(b) == IF b.err THEN None ELSE Some([b EXCEPT !.body = None])

\* RequestBuilder::try_clone: None when the builder holds an error (the body, a
\* String, can always be cloned).
try_clone(b) == IF b.err THEN None ELSE Some(b)

----------------------------------------------------------------------------
(* The inputs: the requests a caller passes and the replies of the transport *)

M_GET == <<"G","E","T">>

M_POST == <<"P","O","S","T">>

M_PUT == <<"P","U","T">>

M_DELETE == <<"D","E","L","E","T","E">>

\* The verbs of the match in http_request.
Verbs == {M_GET, M_POST, M_PUT, M_DELETE}

Methods == {M_GET, <<"g","e","t">>, <<"P","o","s","t">>, M_DELETE, <<"P","A","T","C","H">>}

Urls ==
    { <<"h","t","t","p",":","/","/","h","/","d","b">>,
      <<"h","t","t","p",":","/","/","h","/","q","?","a","=","1">>,
      <<"n","o","t"," ","a"," ","u","r","l">> }

H_ContentType == <<"C","o","n","t","e","n","t","-","T","y","p","e">>

H_Authorization == <<"A","u","t","h","o","r","i","z","a","t","i","o","n">>

\* request.headers: None, or the map's entries in the order the loop visits them.
HeaderChoices ==
    { None,
      Some(<< <<H_ContentType, <<"t","e","x","t","/","x","m","l">> >> >>),
      Some(<< <<H_Authorization, <<"B","e","a","r","e","r"," ","t">> >> >>),
      Some(<< <<(<<"b","a","d"," ","n","a","m","e">>), <<"1">> >> >>),
      Some(<< <<(<<"X","-","R","e","q">>), <<"1">> >>, <<(<<"x","-","r","e","q">>), <<"2">> >> >>),
      Some(<< <<(<<"x","-","r","e","q">>), <<"2">> >>, <<(<<"X","-","R","e","q">>), <<"1">> >> >>) }

Bodies == {None, Some(<<"<","x","q","/",">">>)}

Usernames == {None, Some(<<"a","d","m","i","n">>)}

Passwords == {None, Some(<<"p","w">>)}

Requests ==
    [url : Urls, method : Methods, headers : HeaderChoices, body : Bodies,
     username : Usernames, password : Passwords]

W_Basic == <<"B","a","s","i","c"," ","r","e","a","l","m","=","\"","x","\"">>

W_DigestQop ==
    <<"D","i","g","e","s","t"," ","r","e","a","l","m","=","\"","r","\"",","," ","n","o","n","c","e","=","\"","n","1","\"",","," ","q","o","p","=","\"","a","u","t","h","\"",","," ","o","p","a","q","u","e","=","\"","o","\"">>

W_DigestNoQop ==
    <<"D","i","g","e","s","t"," ","r","e","a","l","m","=","\"","r","\"",","," ","n","o","n","c","e","=","\"","n","2","\"">>

W_LowerDigest ==
    <<"d","i","g","e","s","t"," ","r","e","a","l","m","=","\"","r","\"",","," ","n","o","n","c","e","=","\"","n","3","\"">>

W_NotText ==
    <<"D","i","g","e","s","t"," ","r","e","a","l","m","=","\"","c","a","f">> \o <<NonAsciiByte, "\"">>

H_WwwAuthenticate == <<"W","W","W","-","A","u","t","h","e","n","t","i","c","a","t","e">>

ProbeHeaderChoices ==
    { <<>> } \cup
    { << <<H_WwwAuthenticate, w>> >> : w \in {W_Basic, W_DigestQop, W_DigestNoQop, W_LowerDigest, W_NotText} }

ProbeStatuses == {200, 401}

ProbeBody == <<"p","r","o","b","e">>

\* What the transport answers to the probe: a transport error, or a reply.
ProbeOutcomes ==
    { [ok |-> FALSE] } \cup
    [ok : {TRUE}, status : ProbeStatuses, headers : ProbeHeaderChoices, body : {ProbeBody}]

\* The values rand::random::<u64>() may draw, as sixteen hexadecimal digits.
RandomValues ==
    { <<0,0,0,0,0,0,0,0,0,10,4,15,1,1,3,11>>, <<15,14,0,1,2,3,4,5,6,7,8,9,10,11,12,13>> }

CORS_Origin ==
    <<"A","c","c","e","s","s","-","C","o","n","t","r","o","l","-","A","l","l","o","w","-","O","r","i","g","i","n">>

CORS_Methods ==
    <<"A","c","c","e","s","s","-","C","o","n","t","r","o","l","-","A","l","l","o","w","-","M","e","t","h","o","d","s">>

CORS_Headers ==
    <<"A","c","c","e","s","s","-","C","o","n","t","r","o","l","-","A","l","l","o","w","-","H","e","a","d","e","r","s">>

V_Star == <<"*">>

V_Methods == <<"G","E","T",","," ","P","O","S","T",","," ","O","P","T","I","O","N","S">>

V_ContentType == <<"C","o","n","t","e","n","t","-","T","y","p","e">>

RealHeaderChoices ==
    { <<>>,
      << <<H_ContentType, <<"t","e","x","t","/","x","m","l">> >> >>,
      << <<CORS_Origin, <<"h","t","t","p","s",":","/","/","e",".","o","r","g">> >>,
         <<(<<"X","-","B","i","n">>), <<NonAsciiByte>> >> >> }

RealStatuses == {199, 200, 299, 300, 401}

\* What the transport answers to the real request: a transport error, or the status
\* line and headers of a reply.
RealOutcomes ==
    { [ok |-> FALSE] } \cup [ok : {TRUE}, status : RealStatuses, headers : RealHeaderChoices]

RealBody == <<"r","e","a","l">>

\* What response.text().await yields: the body as text, or an error.
BodyOutcomes == { [ok |-> FALSE], [ok |-> TRUE, text |-> RealBody], [ok |-> TRUE, text |-> <<>>] }

----------------------------------------------------------------------------
(* http_request as a state machine.  Each call of the command is one task;   *)
(* its await points (the probe's send, the real send, the body read) are the *)
(* places where the transport acts.                                          *)

Calls == {1, 2}

VARIABLES
    request,             \* request[c]: the HttpRequest the call was given
    pc,                  \* pc[c]: where the call stands
    req_builder,         \* req_builder[c]: None before it is created, then Some(builder)
    challenge_response,  \* challenge_response[c]: None, or Some(outcome of the probe)
    response,            \* response[c]: None, or Some(the reply to the real request)
    result,              \* result[c]: None while running, then Some(Ok(..)) or Some(Err(..))
    sent,                \* sent[c]: the sends of the call on the transport, in order
    in_flight,           \* in_flight[c]: the sends of the call not yet answered
    digest               \* the locals of a generate_digest_auth call followed line by line

vars == <<request, pc, req_builder, challenge_response, response, result, sent, in_flight, digest>>

\* No generate_digest_auth call is being followed.
NoDigest == [pc |-> "idle"]

\* A call that is never made.
NoRequest ==
    [url |-> <<>>, method |-> <<>>, headers |-> None, body |-> None,
     username |-> None, password |-> None]

Ok(v) == [kind |-> "Ok", value |-> v]

Err(error, detail) == [kind |-> "Err", error |-> error, detail |-> detail]

\* One call is made; the other task slot stays idle.
Init ==
    /\ \E r \in Requests : request = [c \in Calls |-> IF c = 1 THEN r ELSE NoRequest]
    /\ pc = [c \in Calls |-> IF c = 1 THEN "start" ELSE "idle"]
    /\ req_builder = [c \in Calls |-> None]
    /\ challenge_response = [c \in Calls |-> None]
    /\ response = [c \in Calls |-> None]
    /\ result = [c \in Calls |-> None]
    /\ sent = [c \in Calls |-> <<>>]
    /\ in_flight = [c \in Calls |-> {}]
    /\ digest = NoDigest

\* Mutant of MatchVerb: the method is matched as written, without to_uppercase().
MatchVerbAsWritten(method) ==
    IF method \in Verbs THEN Some(method) ELSE None

\* The match on request.method.to_uppercase(): the verb, or None for the `_` arm.
MatchVerb(method) ==
    IF to_uppercase(method) \in Verbs THEN Some(to_uppercase(method)) ELSE None

\* Lines 96-104: the client and the builder for the verb, or the early return.
MatchMethod(c) ==
    /\ pc[c] = "start"
    /\ LET verb == MatchVerb(request[c].method)
       IN IF IsSome(verb)
          THEN /\ req_builder' = [req_builder EXCEPT ![c] = Some(NewBuilder(Unwrap(verb), request[c].url))]
               /\ pc' = [pc EXCEPT ![c] = "headers"]
               /\ UNCHANGED result
          ELSE /\ result' = [result EXCEPT ![c] = Some(Err("UnsupportedMethod", request[c].method))]
               /\ pc' = [pc EXCEPT ![c] = "done"]
               /\ UNCHANGED req_builder
    /\ UNCHANGED <<digest, request, challenge_response, response, sent, in_flight>>

\* The loop `for (key, value) in headers`.
RECURSIVE AddHeaders(_, _)
AddHeaders(b, entries) ==
    IF entries = <<>> THEN b
    ELSE AddHeaders(header(b, Head(entries)[1], Head(entries)[2]), Tail(entries))

\* Lines 106-119: the caller's headers, then the body.
BuildRequest(b, req) ==
    LET withHeaders == IF IsSome(req.headers) THEN AddHeaders(b, Unwrap(req.headers)) ELSE b
    IN IF IsSome(req.body) THEN with_body(withHeaders, Unwrap(req.body)) ELSE withHeaders

AddHeadersAndBody(c) ==
    /\ pc[c] = "headers"
    /\ req_builder' = [req_builder EXCEPT ![c] = Some(BuildRequest(Unwrap(req_builder[c]), request[c]))]
    /\ pc' = [pc EXCEPT ![c] = "auth"]
    /\ UNCHANGED <<digest, request, challenge_response, response, result, sent, in_flight>>

\* `if let (Some(username), Some(password)) = (request.username, request.password)`
HasCredentials(req) == IsSome(req.username) /\ IsSome(req.password)

\* Lines 122-124 with credentials: req_builder.try_clone().unwrap().send(); the unwrap
\* of None panics and the task ends without returning.
SendProbe(c) ==
    /\ pc[c] = "auth"
    /\ HasCredentials(request[c])
    /\ LET clone == try_clone(Unwrap(req_builder[c]))
       IN IF IsSome(clone)
          THEN /\ sent' = [sent EXCEPT ![c] = Append(@, [kind |-> "probe", request |-> Unwrap(clone)])]
               /\ in_flight' = [in_flight EXCEPT ![c] = @ \cup {"probe"}]
               /\ pc' = [pc EXCEPT ![c] = "probe_wait"]
          ELSE /\ pc' = [pc EXCEPT ![c] = "panicked"]
               /\ UNCHANGED <<sent, in_flight>>
    /\ UNCHANGED <<digest, request, req_builder, challenge_response, response, result>>

\* Mutant of SkipAuth: a username alone is sent as Basic credentials with an empty
\* password.
SkipAuthBasicForUsername(c) ==
    /\ pc[c] = "auth"
    /\ ~HasCredentials(request[c])
    /\ req_builder' = [req_builder EXCEPT ![c] =
                          IF IsSome(request[c].username)
                          THEN Some(basic_auth(Unwrap(req_builder[c]), Unwrap(request[c].username), <<>>))
                          ELSE req_builder[c]]
    /\ pc' = [pc EXCEPT ![c] = "send"]
    /\ UNCHANGED <<digest, request, challenge_response, response, result, sent, in_flight>>

\* Line 122 without both credentials: the whole block is skipped.
SkipAuth(c) ==
    /\ pc[c] = "auth"
    /\ ~HasCredentials(request[c])
    /\ pc' = [pc EXCEPT ![c] = "send"]
    /\ UNCHANGED <<digest, request, req_builder, challenge_response, response, result, sent, in_flight>>

\* HeaderMap::get(name): the first value stored under the name, if any.  The names of
\* a reply are held in lower case.
RECURSIVE HeaderGet(_, _)
HeaderGet(headers, name) ==
    IF headers = <<>> THEN None
    ELSE IF to_lowercase(Head(headers)[1]) = name THEN Some(Head(headers)[2])
    ELSE HeaderGet(Tail(headers), name)

K_Digest == <<"D","i","g","e","s","t">>

\* Mutant of Negotiate: a 401 that does not announce Digest falls back to Basic.
NegotiateBasicOnAny401(b, req, outcome, random) ==
    LET username == Unwrap(req.username)
        password == Unwrap(req.password)
        www_auth == HeaderGet(outcome.headers, WWW_AUTHENTICATE)
        auth_str == to_str(Unwrap(www_auth))
        digest_auth == generate_digest_auth(username, password, req.method,
                                            req.url, auth_str.value, random)
    IN IF outcome.ok /\ outcome.status # 401 THEN b
       ELSE IF outcome.ok /\ IsSome(www_auth) /\ auth_str.ok /\ starts_with(auth_str.value, K_Digest)
       THEN (IF digest_auth.ok THEN header(b, AUTHORIZATION, digest_auth.value) ELSE b)
       ELSE basic_auth(b, username, password)

\* Mutant of Negotiate: the credentials are attached as Basic unless a 401 came back.
NegotiateBasicUnlessChallenged(b, req, outcome, random) ==
    LET username == Unwrap(req.username)
        password == Unwrap(req.password)
        www_auth == HeaderGet(outcome.headers, WWW_AUTHENTICATE)
        auth_str == to_str(Unwrap(www_auth))
        digest_auth == generate_digest_auth(username, password, req.method,
                                            req.url, auth_str.value, random)
    IN IF outcome.ok /\ outcome.status = 401
       THEN (IF IsSome(www_auth) /\ auth_str.ok /\ starts_with(auth_str.value, K_Digest)
                /\ digest_auth.ok
             THEN header(b, AUTHORIZATION, digest_auth.value) ELSE b)
       ELSE basic_auth(b, username, password)

\* Mutant of Negotiate: the digest is calculated with the upper-cased verb instead of
\* request.method.
NegotiateUpperCasedMethod(b, req, outcome, random) ==
    LET username == Unwrap(req.username)
        password == Unwrap(req.password)
        www_auth == HeaderGet(outcome.headers, WWW_AUTHENTICATE)
        auth_str == to_str(Unwrap(www_auth))
        digest_auth == generate_digest_auth(username, password, to_uppercase(req.method),
                                            req.url, auth_str.value, random)
    IN IF outcome.ok /\ outcome.status = 401
       THEN (IF IsSome(www_auth) /\ auth_str.ok /\ starts_with(auth_str.value, K_Digest)
                /\ digest_auth.ok
             THEN header(b, AUTHORIZATION, digest_auth.value) ELSE b)
       ELSE IF outcome.ok THEN b
       ELSE basic_auth(b, username, password)

\* Mutant of Negotiate: after a Digest challenge the Basic credentials are attached as
\* well as the digest.
NegotiateDigestAndBasic(b, req, outcome, random) ==
    LET username == Unwrap(req.username)
        password == Unwrap(req.password)
        www_auth == HeaderGet(outcome.headers, WWW_AUTHENTICATE)
        auth_str == to_str(Unwrap(www_auth))
        digest_auth == generate_digest_auth(username, password, req.method,
                                            req.url, auth_str.value, random)
    IN IF outcome.ok /\ outcome.status = 401
       THEN (IF IsSome(www_auth) /\ auth_str.ok /\ starts_with(auth_str.value, K_Digest)
                /\ digest_auth.ok
             THEN basic_auth(header(b, AUTHORIZATION, digest_auth.value), username, password)
             ELSE b)
       ELSE IF outcome.ok THEN b
       ELSE basic_auth(b, username, password)

\* Lines 126-143: the builder after the probe's outcome has been looked at.
Negotiate(b, req, outcome, random) ==
    LET username == Unwrap(req.username)
        password == Unwrap(req.password)
    IN IF outcome.ok
       THEN IF outcome.status = 401
            THEN LET www_auth == HeaderGet(outcome.headers, WWW_AUTHENTICATE)
                     auth_str == to_str(Unwrap(www_auth))
                     digest_auth == generate_digest_auth(username, password, req.method,
                                                         req.url, auth_str.value, random)
                 IN IF IsSome(www_auth) /\ auth_str.ok /\ starts_with(auth_str.value, K_Digest)
                       /\ digest_auth.ok
                    THEN header(b, AUTHORIZATION, digest_auth.value)
                    ELSE b
            ELSE b
       ELSE basic_auth(b, username, password)

\* Mutant of ProbeCompletes: the challenge is kept where all calls see it, and a call
\* negotiates with the probe outcome another call has already obtained.
ProbeCompletesSharedChallenge(c) ==
    /\ pc[c] = "probe_wait"
    /\ \E outcome \in ProbeOutcomes, random \in RandomValues :
          LET cached == {Unwrap(challenge_response[d]) :
                            d \in {e \in Calls \ {c} : challenge_response[e] # None}}
              used == IF cached # {} THEN CHOOSE o \in cached : TRUE ELSE outcome
          IN /\ challenge_response' = [challenge_response EXCEPT ![c] = Some(outcome)]
             /\ req_builder' = [req_builder EXCEPT ![c] =
                                   Some(Negotiate(Unwrap(req_builder[c]), request[c], used, random))]
    /\ in_flight' = [in_flight EXCEPT ![c] = @ \ {"probe"}]
    /\ pc' = [pc EXCEPT ![c] = "send"]
    /\ UNCHANGED <<digest, request, response, result, sent>>

\* The probe's send returns; lines 126-143 run on its outcome.
ProbeCompletes(c) ==
    /\ pc[c] = "probe_wait"
    /\ \E outcome \in ProbeOutcomes, random \in RandomValues :
          /\ challenge_response' = [challenge_response EXCEPT ![c] = Some(outcome)]
          /\ req_builder' = [req_builder EXCEPT ![c] =
                                Some(Negotiate(Unwrap(req_builder[c]), request[c], outcome, random))]
    /\ in_flight' = [in_flight EXCEPT ![c] = @ \ {"probe"}]
    /\ pc' = [pc EXCEPT ![c] = "send"]
    /\ UNCHANGED <<digest, request, response, result, sent>>

\* Line 146: req_builder.send().
SendReal(c) ==
    /\ pc[c] = "send"
    /\ sent' = [sent EXCEPT ![c] = Append(@, [kind |-> "real", request |-> Unwrap(req_builder[c])])]
    /\ in_flight' = [in_flight EXCEPT ![c] = @ \cup {"real"}]
    /\ pc' = [pc EXCEPT ![c] = "real_wait"]
    /\ UNCHANGED <<digest, request, req_builder, challenge_response, response, result>>

\* Lines 146-147 and 173: the real send returns.  A builder that holds an error
\* yields that error; otherwise the transport fails or replies.
RealCompletes(c) ==
    /\ pc[c] = "real_wait"
    /\ \E outcome \in RealOutcomes :
          /\ Unwrap(req_builder[c]).err => ~outcome.ok
          /\ IF outcome.ok
             THEN /\ response' = [response EXCEPT ![c] = Some(outcome)]
                  /\ pc' = [pc EXCEPT ![c] = "body"]
                  /\ UNCHANGED result
             ELSE /\ result' = [result EXCEPT ![c] = Some(Err("RequestFailed", <<>>))]
                  /\ pc' = [pc EXCEPT ![c] = "done"]
                  /\ UNCHANGED response
    /\ in_flight' = [in_flight EXCEPT ![c] = @ \ {"real"}]
    /\ UNCHANGED <<digest, request, req_builder, challenge_response, sent>>

\* Lines 149-153: the reply's headers collected into a HashMap<String, String>; a name
\* is the header's lower-case form, a value that is not text becomes "".
RECURSIVE CollectHeaders(_, _)
CollectHeaders(headers, map) ==
    IF headers = <<>> THEN map
    ELSE CollectHeaders(Tail(headers),
             Insert(map, to_lowercase(Head(headers)[1]),
                    IF to_str(Head(headers)[2]).ok THEN Head(headers)[2] ELSE <<>>))

\* Lines 160-164: the three inserts.
AddCors(headers) ==
    Insert(Insert(Insert(headers, CORS_Origin, V_Star), CORS_Methods, V_Methods),
           CORS_Headers, V_ContentType)

\* Mutant of IsSuccess: the upper end of the range is included.
IsSuccessUpTo300(status) == status >= 200 /\ status <= 300

\* Line 170.
IsSuccess(status) == status >= 200 /\ status < 300

\* Lines 148-171: the HttpResponse built from the reply and its body.
MakeResponse(reply, body) ==
    [status |-> reply.status,
     headers |-> AddCors(CollectHeaders(reply.headers, EmptyMap)),
     body |-> body,
     success |-> IsSuccess(reply.status)]

\* Lines 155-171: response.text() returns.
ReadBody(c) ==
    /\ pc[c] = "body"
    /\ \E text \in BodyOutcomes :
          result' = [result EXCEPT ![c] =
                        IF text.ok THEN Some(Ok(MakeResponse(Unwrap(response[c]), text.text)))
                        ELSE Some(Err("BodyReadFailed", <<>>))]
    /\ pc' = [pc EXCEPT ![c] = "done"]
    /\ UNCHANGED <<digest, request, req_builder, challenge_response, response, sent, in_flight>>

Next ==
    \E c \in Calls :
        \/ MatchMethod(c)
        \/ AddHeadersAndBody(c)
        \/ SendProbe(c)
        \/ SkipAuth(c)
        \/ ProbeCompletes(c)
        \/ SendReal(c)
        \/ RealCompletes(c)
        \/ ReadBody(c)

Spec == Init /\ [][Next]_vars

----------------------------------------------------------------------------
(* Two calls of the command running at once.  Tauri runs each invocation of   *)
(* an async command as its own task, so the steps of the two calls interleave *)
(* freely at their await points.  Each call has its own request; the          *)
(* transport answers from a short list of replies, among them the same Digest *)
(* challenge for both calls.                                                  *)

U_Admin == <<"a","d","m","i","n">>

U_Guest == <<"g","u","e","s","t">>

\* The requests of the two calls: they differ in URL, method, headers, body and
\* credentials.
ConcRequests(c) ==
    IF c = 1
    THEN [url : {<<"h","t","t","p",":","/","/","h","/","d","b">>},
          method : {<<"P","o","s","t">>},
          headers : {Some(<< <<H_ContentType, <<"t","e","x","t","/","x","m","l">> >> >>)},
          body : {Some(<<"<","x","q","/",">">>)},
          username : {Some(U_Admin)},
          password : {None, Some(<<"p","w">>)}]
    ELSE [url : {<<"h","t","t","p",":","/","/","h","/","q","?","a","=","1">>},
          method : {<<"g","e","t">>, M_DELETE},
          headers : {None},
          body : {None},
          username : {Some(U_Guest)},
          password : {Some(<<"g">>)}]

\* The probe outcomes of the two-call runs.
ConcProbeOutcomes ==
    { o \in ProbeOutcomes :
         \/ ~o.ok
         \/ o.status = 401 /\ o.headers \in { << <<H_WwwAuthenticate, W_DigestQop>> >>,
                                                << <<H_WwwAuthenticate, W_DigestNoQop>> >> }
         \/ o.status = 200 /\ o.headers = <<>> }

\* The replies to the real request in the two-call runs.
ConcRealOutcomes ==
    { o \in RealOutcomes : o.ok /\ o.status \in {200, 401} /\ o.headers = <<>> }

InitConc ==
    /\ request \in [Calls -> UNION {ConcRequests(c) : c \in Calls}]
    /\ \A c \in Calls : request[c] \in ConcRequests(c)
    /\ pc = [c \in Calls |-> "start"]
    /\ req_builder = [c \in Calls |-> None]
    /\ challenge_response = [c \in Calls |-> None]
    /\ response = [c \in Calls |-> None]
    /\ result = [c \in Calls |-> None]
    /\ sent = [c \in Calls |-> <<>>]
    /\ in_flight = [c \in Calls |-> {}]
    /\ digest = NoDigest

\* Any step of either call, in any order.
NextConc ==
    \E c \in Calls :
        \/ MatchMethod(c)
        \/ AddHeadersAndBody(c)
        \/ SendProbe(c)
        \/ SkipAuth(c)
        \/ ProbeCompletes(c) /\ challenge_response'[c] \subseteq ConcProbeOutcomes
        \/ SendReal(c)
        \/ RealCompletes(c) /\ response'[c] \subseteq ConcRealOutcomes
        \/ ReadBody(c)

SpecConc == InitConc /\ [][NextConc]_vars

----------------------------------------------------------------------------
(* generate_digest_auth followed line by line, with the digests computed by   *)
(* MD5 itself.  The inputs are those of a call at line 133: a username, a     *)
(* password, the caller's method and URL, and a WWW-Authenticate value that   *)
(* is text and starts with Digest.                                            *)

\* The request of the example of RFC 2617, section 3.5.
U_Mufasa ==
    <<"M","u","f","a","s","a">>

P_CircleOfLife ==
    <<"C","i","r","c","l","e"," ","O","f"," ","L","i","f","e">>

Url_DirIndex ==
    <<"h","t","t","p",":","/","/","h","o","s","t",".","c","o","m","/","d","i","r","/","i","n",
      "d","e","x",".","h","t","m","l">>

\* The challenge of the example of RFC 2617, section 3.5.
W_Rfc2617 ==
    <<"D","i","g","e","s","t"," ","r","e","a","l","m","=","\"","t","e","s","t","r","e","a","l",
      "m","@","h","o","s","t",".","c","o","m","\"",","," ","q","o","p","=","\"","a","u","t","h",
      ",","a","u","t","h","-","i","n","t","\"",","," ","n","o","n","c","e","=","\"","d","c","d",
      "9","8","b","7","1","0","2","d","d","2","f","0","e","8","b","1","1","d","0","f","6","0",
      "0","b","f","b","0","c","0","9","3","\"",","," ","o","p","a","q","u","e","=","\"","5","c",
      "c","c","0","6","9","c","4","0","3","e","b","a","f","9","f","0","1","7","1","e","9","5",
      "1","7","f","4","0","e","4","1","\"">>

\* Challenges as servers may write them.
W_RealmHoldsDigest ==
    <<"D","i","g","e","s","t"," ","r","e","a","l","m","=","\"","D","i","g","e","s","t"," ","R",
      "e","a","l","m","\"",","," ","n","o","n","c","e","=","\"","n","4","\"">>

W_DoubleQuoted ==
    <<"D","i","g","e","s","t"," ","r","e","a","l","m","=","\"","\"","q","\"","\"",","," ","n",
      "o","n","c","e","=","\"","n","5","\"">>

W_Bare ==
    <<"D","i","g","e","s","t">>

W_Loose ==
    <<"D","i","g","e","s","t"," "," ","r","e","a","l","m"," ","="," ","\"","r","\""," ",",","n",
      "o","n","c","e","=","\"","n","7","\"",",","s","t","a","l","e",","," ","q","o","p","=","a",
      "u","t","h"," ",","," ","o","p","a","q","u","e","=","\"","\"">>

W_Repeated ==
    <<"D","i","g","e","s","t"," ","n","o","n","c","e","=","\"","a","\"",","," ","n","o","n","c",
      "e","=","\"","b","\"",","," ","o","p","a","q","u","e","=","\"","o","\"">>

W_EqualsInValue ==
    <<"D","i","g","e","s","t"," ","r","e","a","l","m","=","\"","a","=","b","\"",","," ","n","o",
      "n","c","e","=","\"","n","9","\"",","," ","q","o","p","=","\"","\"">>

DigestChallenges ==
    { W_Rfc2617, W_DigestQop, W_DigestNoQop, W_RealmHoldsDigest, W_DoubleQuoted, W_Bare,
      W_Loose, W_Repeated, W_EqualsInValue }

\* The arguments of the calls followed.
DigestInputs ==
    { [username |-> U_Mufasa, password |-> P_CircleOfLife, method |-> M_GET,
       url |-> Url_DirIndex, www_auth |-> W_Rfc2617] }
    \cup [username : {U_Admin}, password : {<<"p","w">>},
          method : {<<"g","e","t">>, <<"P","o","s","t">>},
          url : {<<"h","t","t","p",":","/","/","h","/","q","?","a","=","1">>},
          www_auth : DigestChallenges]

\* The call is entered with its arguments; the locals are not yet set.
InitDigest ==
    /\ request = [c \in Calls |-> NoRequest]
    /\ pc = [c \in Calls |-> "idle"]
    /\ req_builder = [c \in Calls |-> None]
    /\ challenge_response = [c \in Calls |-> None]
    /\ response = [c \in Calls |-> None]
    /\ result = [c \in Calls |-> None]
    /\ sent = [c \in Calls |-> <<>>]
    /\ in_flight = [c \in Calls |-> {}]
    /\ \E args \in DigestInputs :
          digest = [pc |-> "parse", username |-> args.username, password |-> args.password,
                    method |-> args.method, url |-> args.url, www_auth |-> args.www_auth,
                    challenge |-> EmptyMap, realm |-> <<>>, nonce |-> <<>>, qop |-> <<>>,
                    uri |-> <<>>, cnonce |-> <<>>, nc |-> <<>>, ha1 |-> <<>>, ha2 |-> <<>>,
                    response |-> <<>>, result |-> None]

\* Lines 33-47: the challenge map and the three directives read from it.
DigestParse ==
    /\ digest.pc = "parse"
    /\ LET challenge == ParseChallenge(digest.www_auth)
       IN digest' = [digest EXCEPT !.challenge = challenge,
                                   !.realm = unwrap_or_empty(Get(challenge, K_realm)),
                                   !.nonce = unwrap_or_empty(Get(challenge, K_nonce)),
                                   !.qop = unwrap_or_empty(Get(challenge, K_qop)),
                                   !.pc = "url"]
    /\ UNCHANGED <<request, pc, req_builder, challenge_response, response, result, sent, in_flight>>

\* Lines 50-54: the uri, or the early return of the Invalid URL error.
DigestUrl ==
    /\ digest.pc = "url"
    /\ LET url_obj == UrlParse(digest.url)
       IN IF url_obj.ok
          THEN digest' = [digest EXCEPT !.uri = DigestUri(url_obj), !.pc = "cnonce"]
          ELSE digest' = [digest EXCEPT !.result = Some([ok |-> FALSE, error |-> "Invalid URL"]),
                                        !.pc = "done"]
    /\ UNCHANGED <<request, pc, req_builder, challenge_response, response, result, sent, in_flight>>

\* Lines 57-58: the client nonce drawn and written in hexadecimal, and the nonce count.
DigestCnonce ==
    /\ digest.pc = "cnonce"
    /\ \E random \in RandomValues :
          digest' = [digest EXCEPT !.cnonce = FormatHex(random), !.nc = NonceCount, !.pc = "ha1"]
    /\ UNCHANGED <<request, pc, req_builder, challenge_response, response, result, sent, in_flight>>

\* Lines 61-62.
DigestHa1 ==
    /\ digest.pc = "ha1"
    /\ digest' = [digest EXCEPT !.ha1 = Md5Hex(Ha1Input(digest.username, digest.realm, digest.password)),
                                !.pc = "ha2"]
    /\ UNCHANGED <<request, pc, req_builder, challenge_response, response, result, sent, in_flight>>

\* Mutant of DigestHa2: the method is upper-cased, as it is for the choice of the verb.
DigestHa2UpperCased ==
    /\ digest.pc = "ha2"
    /\ digest' = [digest EXCEPT !.ha2 = Md5Hex(Ha2Input(to_uppercase(digest.method), digest.uri)),
                                !.pc = "response"]
    /\ UNCHANGED <<request, pc, req_builder, challenge_response, response, result, sent, in_flight>>

\* Lines 65-66.
DigestHa2 ==
    /\ digest.pc = "ha2"
    /\ digest' = [digest EXCEPT !.ha2 = Md5Hex(Ha2Input(digest.method, digest.uri)),
                                !.pc = "response"]
    /\ UNCHANGED <<request, pc, req_builder, challenge_response, response, result, sent, in_flight>>

\* Lines 69-75.
DigestRespond ==
    /\ digest.pc = "response"
    /\ digest' = [digest EXCEPT !.response = Md5Hex(ResponseInput(digest.ha1, digest.nonce, digest.nc,
                                                                  digest.cnonce, digest.qop, digest.ha2)),
                                !.pc = "header"]
    /\ UNCHANGED <<request, pc, req_builder, challenge_response, response, result, sent, in_flight>>

\* Lines 78-91: the header assembled and returned.
DigestAssemble ==
    /\ digest.pc = "header"
    /\ digest' = [digest EXCEPT !.result =
                       Some([ok |-> TRUE,
                             value |-> DigestHeader(digest.username, digest.realm, digest.nonce,
                                                    digest.uri, digest.response, digest.qop,
                                                    digest.nc, digest.cnonce,
                                                    Get(digest.challenge, K_opaque))]),
                                !.pc = "done"]
    /\ UNCHANGED <<request, pc, req_builder, challenge_response, response, result, sent, in_flight>>

NextDigest ==
    \/ DigestParse
    \/ DigestUrl
    \/ DigestCnonce
    \/ DigestHa1
    \/ DigestHa2
    \/ DigestRespond
    \/ DigestAssemble

SpecDigest == InitDigest /\ [][NextDigest]_vars

----------------------------------------------------------------------------
(* Vocabulary of the properties *)

\* Two texts that differ at most in the case of their letters.
EqualsIgnoreCase(a, b) ==
    Len(a) = Len(b) /\ \A i \in 1..Len(a) : LowerChar(a[i]) = LowerChar(b[i])

MethodSupported(method) == \E v \in Verbs : EqualsIgnoreCase(method, v)

IsProbe(e) == e.kind = "probe"

IsReal(e) == e.kind = "real"

ProbeSends(c) == SelectSeq(sent[c], IsProbe)

RealSends(c) == SelectSeq(sent[c], IsReal)

\* The call has returned to its caller, or has ended without returning.
Returned(c) == pc[c] = "done"

Ended(c) == pc[c] \in {"done", "panicked"}

\* The real request has been handed to the transport.
RealSent(c) == pc[c] \in {"real_wait", "body", "done"}

IsAuthorization(h) == h[1] = AUTHORIZATION

\* The Authorization values a request carries, in order.
AuthValues(wire) ==
    LET hs == SelectSeq(wire.headers, IsAuthorization) IN [i \in 1..Len(hs) |-> hs[i][2]]

IsCallerAuthorization(h) == EqualsIgnoreCase(h[1], H_Authorization)

\* The Authorization values the caller itself put into request.headers.
CallerAuthValues(req) ==
    IF req.headers = None THEN <<>>
    ELSE LET hs == SelectSeq(Unwrap(req.headers), IsCallerAuthorization)
         IN [i \in 1..Len(hs) |-> hs[i][2]]

\* The request carries no Authorization header but those of the caller's own headers.
NothingAttached(c, wire) == AuthValues(wire) = CallerAuthValues(request[c])

B64Index(ch) == IndexOf(Base64Alphabet, ch) - 1

\* The text whose padded base64 form is t.
RECURSIVE Base64Decode(_)
Base64Decode(t) ==
    IF Len(t) < 4 THEN <<>>
    ELSE LET n1 == B64Index(t[1])
             n2 == B64Index(t[2])
             n3 == IF t[3] = "=" THEN 0 ELSE B64Index(t[3])
             n4 == IF t[4] = "=" THEN 0 ELSE B64Index(t[4])
         IN <<CharOf(n1 * 4 + (n2 \div 16))>>
            \o (IF t[3] = "=" THEN <<>> ELSE <<CharOf((n2 % 16) * 16 + (n3 \div 4))>>)
            \o (IF t[4] = "=" THEN <<>> ELSE <<CharOf((n3 % 4) * 64 + n4)>>)
            \o Base64Decode(SubSeq(t, 5, Len(t)))

\* value is "Basic " followed by the base64 form of username:password.
IsBasicFor(value, username, password) ==
    /\ starts_with(value, BasicSpace)
    /\ Base64Decode(SubSeq(value, Len(BasicSpace) + 1, Len(value))) = username \o <<":">> \o password

\* The probe of call c has been answered with this kind of outcome.
ProbeFailed(c) == challenge_response[c] # None /\ ~Unwrap(challenge_response[c]).ok

ProbeReplied(c) == challenge_response[c] # None /\ Unwrap(challenge_response[c]).ok

\* The values of the WWW-Authenticate headers of a reply, in order.
IsWwwAuthenticate(h) == EqualsIgnoreCase(h[1], H_WwwAuthenticate)

WwwAuthValues(reply) ==
    LET hs == SelectSeq(reply.headers, IsWwwAuthenticate) IN [i \in 1..Len(hs) |-> hs[i][2]]

IsText(value) == \A i \in 1..Len(value) : Has(AsciiPrintable, value[i]) \/ value[i] = "\t"

\* The reply announces Digest: its WWW-Authenticate value is text starting with Digest.
AnnouncesDigest(reply) ==
    /\ WwwAuthValues(reply) # <<>>
    /\ IsText(WwwAuthValues(reply)[1])
    /\ starts_with(WwwAuthValues(reply)[1], K_Digest)

----------------------------------------------------------------------------
(* The properties *)

\* C1: a call whose method is not GET, POST, PUT or DELETE in any letter case returns
\* the UnsupportedMethod error and sends nothing on the transport, neither probe nor
\* real request; a method that matches in another letter case is accepted: the call
\* gets its request builder, never returns UnsupportedMethod, and has sent on the
\* transport whenever it returns.
C1_UnsupportedMethodBeforeAnySend ==
    \A c \in Calls :
        pc[c] \notin {"idle", "start"} =>
            IF MethodSupported(request[c].method)
            THEN /\ req_builder[c] # None
                 /\ \A r \in result[c] : ~(r.kind = "Err" /\ r.error = "UnsupportedMethod")
                 /\ Returned(c) => Len(RealSends(c)) >= 1
            ELSE /\ pc[c] = "done"
                 /\ result[c] = Some(Err("UnsupportedMethod", request[c].method))
                 /\ sent[c] = <<>>
                 /\ in_flight[c] = {}

\* A PATCH call with credentials has returned the error; a call with a lower-case
\* verb has returned a response.
C1_Witness ==
    \E c \in Calls :
        /\ ~MethodSupported(request[c].method)
        /\ HasCredentials(request[c])
        /\ Returned(c)
        /\ result[c] = Some(Err("UnsupportedMethod", request[c].method))

\* C2: with both credentials and a supported method, when the probe's send fails at
\* the transport the probe is not sent again, and the real request goes out carrying
\* a Basic Authorization header made of that username and password.
C2_ProbeFailureFallsBackToBasic ==
    \A c \in Calls :
        (HasCredentials(request[c]) /\ ProbeFailed(c)) =>
            /\ Len(ProbeSends(c)) = 1
            /\ pc[c] = "send" \/ RealSent(c)
            /\ pc[c] = "send" => ENABLED SendReal(c)
            /\ RealSent(c) =>
                  /\ Len(RealSends(c)) = 1
                  /\ ~RealSends(c)[1].request.err
                  /\ \E i \in 1..Len(AuthValues(RealSends(c)[1].request)) :
                        IsBasicFor(AuthValues(RealSends(c)[1].request)[i],
                                   Unwrap(request[c].username), Unwrap(request[c].password))

C2_Witness ==
    \E c \in Calls :
        /\ ProbeFailed(c)
        /\ RealSent(c)
        /\ \E i \in 1..Len(AuthValues(RealSends(c)[1].request)) :
              starts_with(AuthValues(RealSends(c)[1].request)[i], BasicSpace)

\* C3: with both credentials, when the probe is answered 401 and the WWW-Authenticate
\* header is absent, is not text, or does not start with Digest, the real request is
\* sent with the headers of the probe and nothing attached: it carries no
\* Authorization header (none at all unless the caller's own headers held one).
C3_NonDigestChallengeAttachesNothing ==
    \A c \in Calls :
        (/\ HasCredentials(request[c])
         /\ ProbeReplied(c)
         /\ Unwrap(challenge_response[c]).status = 401
         /\ ~AnnouncesDigest(Unwrap(challenge_response[c]))) =>
            /\ pc[c] = "send" \/ RealSent(c)
            /\ pc[c] = "send" => ENABLED SendReal(c)
            /\ RealSent(c) =>
                  /\ Len(RealSends(c)) = 1
                  /\ RealSends(c)[1].request = ProbeSends(c)[1].request
                  /\ NothingAttached(c, RealSends(c)[1].request)
                  /\ (CallerAuthValues(request[c]) = <<>>) =>
                        ~Has([i \in 1..Len(RealSends(c)[1].request.headers) |->
                                 RealSends(c)[1].request.headers[i][1]], AUTHORIZATION)

\* The probe was answered 401 with WWW-Authenticate: Basic realm="x", and the real
\* request has gone out.
C3_Witness ==
    \E c \in Calls :
        /\ ProbeReplied(c)
        /\ Unwrap(challenge_response[c]).status = 401
        /\ WwwAuthValues(Unwrap(challenge_response[c])) = <<W_Basic>>
        /\ CallerAuthValues(request[c]) = <<>>
        /\ RealSent(c)

\* The header names of a sequence of (name, value) pairs.
Names(headers) == {headers[i][1] : i \in 1..Len(headers)}

\* The texts response.text() can yield for the real reply.
RealTexts == {o.text : o \in {b \in BodyOutcomes : b.ok}}

\* The HttpResponse r reports the reply of the real request of call c.
BuiltFromRealReply(c, r) ==
    /\ response[c] # None
    /\ r.status = Unwrap(response[c]).status
    /\ r.body \in RealTexts
    /\ \A n \in Names(Unwrap(response[c]).headers) :
          \E k \in DOMAIN r.headers : EqualsIgnoreCase(k, n)
    /\ \A k \in DOMAIN r.headers :
          \/ k \in {CORS_Origin, CORS_Methods, CORS_Headers}
          \/ \E n \in Names(Unwrap(response[c]).headers) : EqualsIgnoreCase(k, n)

\* C4: with both credentials, when the probe is answered with a status other than
\* 401 (200 included), the real request is the probe's request again with no
\* authentication header and no use of the credentials, and the Response returned
\* reports the reply to the real request, not the probe's status, headers or body.
C4_UnchallengedProbeUsesNoCredentials ==
    \A c \in Calls :
        (/\ HasCredentials(request[c])
         /\ ProbeReplied(c)
         /\ Unwrap(challenge_response[c]).status # 401) =>
            /\ pc[c] = "send" \/ RealSent(c)
            /\ pc[c] = "send" => ENABLED SendReal(c)
            /\ RealSent(c) =>
                  /\ Len(RealSends(c)) = 1
                  /\ RealSends(c)[1].request = ProbeSends(c)[1].request
                  /\ NothingAttached(c, RealSends(c)[1].request)
                  /\ (CallerAuthValues(request[c]) = <<>>) =>
                        AUTHORIZATION \notin Names(RealSends(c)[1].request.headers)
            /\ \A r \in result[c] :
                  r.kind = "Ok" =>
                      /\ BuiltFromRealReply(c, r.value)
                      /\ r.value.body # Unwrap(challenge_response[c]).body
                      /\ WWW_AUTHENTICATE \notin DOMAIN r.value.headers

\* The probe was answered 200 with a WWW-Authenticate header and a body, the real
\* request with another status, and the call has returned its Response.
C4_Witness ==
    \E c \in Calls :
        /\ ProbeReplied(c)
        /\ Unwrap(challenge_response[c]).status = 200
        /\ WwwAuthValues(Unwrap(challenge_response[c])) = <<W_DigestQop>>
        /\ Returned(c)
        /\ \E r \in result[c] : r.kind = "Ok" /\ r.value.status = 401 /\ r.value.body = RealBody

\* The headers the negotiation must leave on the real request of call c after a
\* Digest challenge: the probe's, then the Authorization computed by the digest
\* calculation from the caller's method, url and credentials and the challenge, or
\* the probe's alone when the calculation fails.
DigestExpectedHeaders(c, random) ==
    LET d == generate_digest_auth(Unwrap(request[c].username), Unwrap(request[c].password),
                                  request[c].method, request[c].url,
                                  WwwAuthValues(Unwrap(challenge_response[c]))[1], random)
    IN IF d.ok THEN Append(ProbeSends(c)[1].request.headers, <<AUTHORIZATION, d.value>>)
       ELSE ProbeSends(c)[1].request.headers

\* C5: with both credentials, when the probe is answered 401 with a WWW-Authenticate
\* value starting with Digest, the result of the digest calculation (caller's method,
\* url, credentials, that header value) is the Authorization header of the real
\* request; if the calculation fails nothing is attached; either way the real
\* request is sent and the call does not fail on account of the calculation.
C5_DigestChallengeAttachesDigest ==
    \A c \in Calls :
        (/\ HasCredentials(request[c])
         /\ ProbeReplied(c)
         /\ Unwrap(challenge_response[c]).status = 401
         /\ AnnouncesDigest(Unwrap(challenge_response[c]))) =>
            /\ pc[c] = "send" \/ RealSent(c)
            /\ pc[c] = "send" => ENABLED SendReal(c)
            /\ \E random \in RandomValues :
                  /\ Unwrap(req_builder[c]) =
                        [ProbeSends(c)[1].request EXCEPT !.headers = DigestExpectedHeaders(c, random)]
                  /\ RealSent(c) =>
                        /\ Len(RealSends(c)) = 1
                        /\ RealSends(c)[1].request = Unwrap(req_builder[c])
            /\ \A r \in result[c] :
                  r.kind = "Err" => r.error \in {"RequestFailed", "BodyReadFailed"}

\* A lower-case verb, a URL with a query, a Digest challenge with qop: the real
\* request has gone out with a Digest Authorization header.
C5_Witness ==
    \E c \in Calls :
        /\ ProbeReplied(c)
        /\ Unwrap(challenge_response[c]).status = 401
        /\ WwwAuthValues(Unwrap(challenge_response[c])) = <<W_DigestQop>>
        /\ request[c].method = <<"g","e","t">>
        /\ RealSent(c)
        /\ \E i \in 1..Len(AuthValues(RealSends(c)[1].request)) :
              starts_with(AuthValues(RealSends(c)[1].request)[i], DigestSpace)

\* C6 (as claimed): every call that ends has exactly one outcome, a complete
\* Response or one of UnsupportedMethod, RequestFailed, BodyReadFailed; the real
\* request is not sent again after a failure, and RequestFailed is the failure of
\* the real send, never of the probe.
C6_ExactlyOneOutcome ==
    \A c \in Calls :
        Ended(c) =>
            /\ result[c] # None
            /\ \A r \in result[c] :
                  /\ \/ r.kind = "Ok" /\ DOMAIN r.value = {"status", "headers", "body", "success"}
                     \/ r.kind = "Err" /\ r.error \in {"UnsupportedMethod", "RequestFailed", "BodyReadFailed"}
                  /\ (r.kind = "Err" /\ r.error = "RequestFailed") =>
                        Len(RealSends(c)) = 1 /\ response[c] = None
            /\ Len(RealSends(c)) <= 1

\* C7 (as claimed): in every call that passes the method check the real request is
\* sent exactly once and the probe at most once; the probe is answered before the
\* real request is sent and the two are never in flight together.
C7_SendsOnceInOrder ==
    \A c \in Calls :
        /\ Len(ProbeSends(c)) <= 1
        /\ Len(RealSends(c)) <= 1
        /\ Cardinality(in_flight[c]) <= 1
        /\ (ProbeSends(c) # <<>> /\ RealSends(c) # <<>>) =>
              sent[c][1].kind = "probe" /\ challenge_response[c] # None
        /\ (Ended(c) /\ MethodSupported(request[c].method)) => Len(RealSends(c)) = 1

\* The caller's headers as a request carries them: names in lower case, in order.
CallerHeaders(req) ==
    IF req.headers = None THEN <<>>
    ELSE [i \in 1..Len(Unwrap(req.headers)) |->
             <<to_lowercase(Unwrap(req.headers)[i][1]), Unwrap(req.headers)[i][2]>>]

\* C8: in every call that sends a probe, the probe carries the caller's method, URL,
\* headers and body and nothing attached by the negotiation; the real request sent
\* later has the same method, URL and body, and the same headers or those followed by
\* one Authorization header.
C8_ProbeMatchesRealRequest ==
    \A c \in Calls :
        ProbeSends(c) # <<>> =>
            LET probe == ProbeSends(c)[1].request
            IN /\ EqualsIgnoreCase(probe.method, request[c].method)
               /\ probe.method \in Verbs
               /\ probe.url = request[c].url
               /\ probe.body = request[c].body
               /\ probe.headers = CallerHeaders(request[c])
               /\ ~probe.err
               /\ RealSends(c) # <<>> =>
                     LET real == RealSends(c)[1].request
                     IN /\ real.method = probe.method
                        /\ real.url = probe.url
                        /\ real.body = probe.body
                        /\ ~real.err
                        /\ \/ real.headers = probe.headers
                           \/ /\ Len(real.headers) = Len(probe.headers) + 1
                              /\ SubSeq(real.headers, 1, Len(probe.headers)) = probe.headers
                              /\ real.headers[Len(real.headers)][1] = AUTHORIZATION

\* A POST with a body and two headers was probed, challenged for Digest, and sent again.
C8_Witness ==
    \E c \in Calls :
        /\ ProbeSends(c) # <<>>
        /\ RealSends(c) # <<>>
        /\ IsSome(request[c].body)
        /\ request[c].method = <<"P","o","s","t">>
        /\ Len(ProbeSends(c)[1].request.headers) = 2
        /\ Len(RealSends(c)[1].request.headers) = 3

\* C9: in every Response returned, success is true exactly when 200 <= status < 300.
C9_SuccessIffStatus2xx ==
    \A c \in Calls :
        \A r \in result[c] :
            r.kind = "Ok" => (r.value.success <=> r.value.status \in 200..299)

\* Responses with status 199, 200, 299 and 300 exist; this one is 300 and not a success.
C9_Witness ==
    \E c \in Calls :
        \E r \in result[c] : r.kind = "Ok" /\ r.value.status = 300 /\ ~r.value.success

\* The fixed value of a CORS header name.
CorsValue(name) ==
    IF EqualsIgnoreCase(name, CORS_Origin) THEN Some(V_Star)
    ELSE IF EqualsIgnoreCase(name, CORS_Methods) THEN Some(V_Methods)
    ELSE IF EqualsIgnoreCase(name, CORS_Headers) THEN Some(V_ContentType)
    ELSE None

\* C10 (as claimed): in every Response returned, the three CORS headers have their
\* fixed values, which replace whatever the server sent for those header names (no
\* entry of the mapping gives one of these headers another value), and every other
\* header name of the server's reply is in the mapping.
C10_CorsHeadersOverride ==
    \A c \in Calls :
        \A r \in result[c] :
            r.kind = "Ok" =>
                /\ Get(r.value.headers, CORS_Origin) = Some(V_Star)
                /\ Get(r.value.headers, CORS_Methods) = Some(V_Methods)
                /\ Get(r.value.headers, CORS_Headers) = Some(V_ContentType)
                /\ \A k \in DOMAIN r.value.headers :
                      CorsValue(k) # None => Some(r.value.headers[k]) = CorsValue(k)
                /\ \A n \in Names(Unwrap(response[c]).headers) :
                      \E k \in DOMAIN r.value.headers : EqualsIgnoreCase(k, n)

\* C11: a call with a supported method in which the username, the password or both
\* are absent sends no probe and has no probe outcome; its real request is the request
\* as built from the caller's method, URL, headers and body, with no Authorization
\* header attached (none at all unless the caller's own headers held one); it is
\* sent exactly once and the call then returns.
C11_PartialCredentialsAreNoCredentials ==
    \A c \in Calls :
        (pc[c] # "idle" /\ ~HasCredentials(request[c]) /\ MethodSupported(request[c].method)) =>
            /\ ProbeSends(c) = <<>>
            /\ challenge_response[c] = None
            /\ pc[c] # "panicked"
            /\ pc[c] = "send" => ENABLED SendReal(c)
            /\ RealSent(c) =>
                  LET real == RealSends(c)[1].request
                  IN /\ Len(RealSends(c)) = 1
                     /\ real = Unwrap(req_builder[c])
                     /\ real.method \in Verbs
                     /\ EqualsIgnoreCase(real.method, request[c].method)
                     /\ real.url = request[c].url
                     /\ ~real.err => (real.body = request[c].body /\ real.headers = CallerHeaders(request[c]))
                     /\ NothingAttached(c, real) \/ real.err
                     /\ (CallerAuthValues(request[c]) = <<>>) =>
                           AUTHORIZATION \notin Names(real.headers)
            /\ Returned(c) => Len(RealSends(c)) = 1

\* A call with a username and no password has sent its one request and returned a
\* Response.
C11_Witness ==
    \E c \in Calls :
        /\ IsSome(request[c].username)
        /\ request[c].password = None
        /\ Returned(c)
        /\ sent[c] # <<>>
        /\ \E r \in result[c] : r.kind = "Ok"

\* The headers call c's own request and own probe outcome call for on its real
\* request: the caller's headers alone without both credentials, after a probe
\* answered with no Digest challenge, or with a status other than 401; followed by
\* Basic credentials of the call's own username and password after a failed probe;
\* followed by the digest of the call's own challenge after a Digest challenge.
OwnRealHeaders(c, wire) ==
    IF ~HasCredentials(request[c]) THEN wire.headers = CallerHeaders(request[c])
    ELSE IF ProbeFailed(c)
    THEN /\ Len(wire.headers) = Len(CallerHeaders(request[c])) + 1
         /\ SubSeq(wire.headers, 1, Len(wire.headers) - 1) = CallerHeaders(request[c])
         /\ wire.headers[Len(wire.headers)][1] = AUTHORIZATION
         /\ IsBasicFor(wire.headers[Len(wire.headers)][2],
                       Unwrap(request[c].username), Unwrap(request[c].password))
    ELSE IF Unwrap(challenge_response[c]).status = 401 /\ AnnouncesDigest(Unwrap(challenge_response[c]))
    THEN \E random \in RandomValues : wire.headers = DigestExpectedHeaders(c, random)
    ELSE wire.headers = CallerHeaders(request[c])

\* C12: whatever the interleaving of two concurrent calls, what a call sends and
\* returns is fixed by its own Request and the transport's outcomes for its own
\* sends: every send carries the call's own method, URL, body and headers; the
\* Authorization header of its real request is made of its own credentials and of
\* the challenge its own probe obtained, never of the other call's; and its Response
\* reports the reply to its own real request.
C12_CallsAreIndependent ==
    \A c \in Calls :
        /\ \A i \in 1..Len(sent[c]) :
              LET wire == sent[c][i].request
              IN /\ wire.url = request[c].url
                 /\ EqualsIgnoreCase(wire.method, request[c].method)
                 /\ wire.body = request[c].body
                 /\ ~wire.err
                 /\ IsProbe(sent[c][i]) => wire.headers = CallerHeaders(request[c])
                 /\ IsReal(sent[c][i]) => OwnRealHeaders(c, wire)
        /\ (pc[c] \in {"probe_wait", "auth", "headers", "start"}) => challenge_response[c] = None
        /\ \A r \in result[c] :
              IF r.kind = "Ok"
              THEN /\ BuiltFromRealReply(c, r.value)
                   /\ r.value.success = (Unwrap(response[c]).status \in 200..299)
              ELSE \/ r.error = "RequestFailed" /\ response[c] = None /\ Len(RealSends(c)) = 1
                   \/ r.error = "BodyReadFailed" /\ response[c] # None

\* Both calls have their real request in flight at once, each with a Digest
\* Authorization header, after their probes were answered with different challenges.
C12_Witness ==
    /\ \A c \in Calls :
          /\ pc[c] = "real_wait"
          /\ in_flight[c] = {"real"}
          /\ \E i \in 1..Len(AuthValues(RealSends(c)[1].request)) :
                starts_with(AuthValues(RealSends(c)[1].request)[i], DigestSpace)
    /\ challenge_response[1] # challenge_response[2]

\* The values of the example of RFC 2617, section 3.5.
RFC_Realm ==
    <<"t","e","s","t","r","e","a","l","m","@","h","o","s","t",".","c","o","m">>

RFC_Nonce ==
    <<"d","c","d","9","8","b","7","1","0","2","d","d","2","f","0","e","8","b","1","1","d","0",
      "f","6","0","0","b","f","b","0","c","0","9","3">>

RFC_Uri ==
    <<"/","d","i","r","/","i","n","d","e","x",".","h","t","m","l">>

RFC_Qop ==
    <<"a","u","t","h">>

RFC_Cnonce ==
    <<"0","a","4","f","1","1","3","b">>

RFC_HA1 ==
    <<"9","3","9","e","7","5","7","8","e","d","9","e","3","c","5","1","8","a","4","5","2","a",
      "c","e","e","7","6","3","b","c","e","9">>

RFC_HA2 ==
    <<"3","9","a","f","f","3","a","2","b","a","b","6","1","2","6","f","3","3","2","b","9","4",
      "2","a","f","9","6","d","3","3","6","6">>

RFC_Response ==
    <<"6","6","2","9","f","a","e","4","9","3","9","3","a","0","5","3","9","7","4","5","0","9",
      "7","8","5","0","7","c","4","e","f","1">>

\* The call followed has the arguments of the RFC's example.
IsRfcCall ==
    /\ digest.pc # "idle"
    /\ digest.username = U_Mufasa
    /\ digest.password = P_CircleOfLife
    /\ digest.method = M_GET
    /\ digest.url = Url_DirIndex
    /\ digest.www_auth = W_Rfc2617

\* The response lines 69-75 compute from the example's values, the client nonce
\* included.
ResponseOfRfcValues ==
    Md5Hex(ResponseInput(RFC_HA1, RFC_Nonce, NonceCount, RFC_Cnonce, RFC_Qop, RFC_HA2))

\* C13: the digest calculation is a function of its values and gives the numbers of
\* the RFC 2617 example: for Mufasa, Circle Of Life, GET, /dir/index.html and the
\* example's challenge the realm, nonce, qop and uri are the example's, nc is
\* 00000001, HA1 is 939e7578ed9e3c518a452acee763bce9 and HA2 is
\* 39aff3a2bab6126f332b942af96d3366; the response is the digest of
\* HA1:nonce:nc:cnonce:qop:HA2, which for the client nonce 0a4f113b is
\* 6629fae49393a05397450978507c4ef1.
C13_MatchesRfc2617Vector ==
    /\ ResponseOfRfcValues = RFC_Response
    /\ IsRfcCall =>
          /\ digest.pc \notin {"parse"} =>
                digest.realm = RFC_Realm /\ digest.nonce = RFC_Nonce /\ digest.qop = RFC_Qop
          /\ digest.pc \notin {"parse", "url"} => digest.uri = RFC_Uri
          /\ digest.pc \notin {"parse", "url", "cnonce"} => digest.nc = NonceCount
          /\ digest.pc \notin {"parse", "url", "cnonce", "ha1"} => digest.ha1 = RFC_HA1
          /\ digest.pc \notin {"parse", "url", "cnonce", "ha1", "ha2"} => digest.ha2 = RFC_HA2
          /\ digest.pc \in {"header", "done"} =>
                /\ digest.response =
                      Md5Hex(ResponseInput(RFC_HA1, RFC_Nonce, NonceCount, digest.cnonce, RFC_Qop, RFC_HA2))
                /\ digest.cnonce = RFC_Cnonce => digest.response = RFC_Response

\* The call with the example's arguments has returned its header; the random value
\* drawn was 0x0a4f113b, which line 57 writes a4f113b.
C13_Witness ==
    /\ IsRfcCall
    /\ digest.pc = "done"
    /\ digest.ha1 = RFC_HA1
    /\ digest.ha2 = RFC_HA2
    /\ digest.cnonce = <<"a","4","f","1","1","3","b">>
    /\ \E r \in digest.result : r.ok

\* sub occurs in s.
Contains(s, sub) ==
    \E i \in 1..(Len(s) - Len(sub) + 1) : SubSeq(s, i, i + Len(sub) - 1) = sub

\* The pair key="value" stands in the header value after a space.
HasQuoted(value, key, v) == Contains(value, <<" ">> \o key \o <<"=", "\"">> \o v \o <<"\"">>)

\* The pair key=value, without quotes, stands in the header value after a space and
\* ends the value or is followed by a comma.
HasUnquoted(value, key, v) ==
    LET pair == <<" ">> \o key \o <<"=">> \o v
    IN \/ Contains(value, pair \o <<",">>)
       \/ Len(value) >= Len(pair) /\ SubSeq(value, Len(value) - Len(pair) + 1, Len(value)) = pair

\* The header value holds a directive of this name.
HasDirective(value, key) == Contains(value, <<" ">> \o key \o <<"=">>)

K_username == <<"u","s","e","r","n","a","m","e">>

K_uri == <<"u","r","i">>

K_response == <<"r","e","s","p","o","n","s","e">>

K_nc == <<"n","c">>

K_cnonce == <<"c","n","o","n","c","e">>

\* The part of the header value every call produces: the scheme token, then username,
\* realm, nonce, uri and response as quoted pairs; and the quoted opaque exactly when
\* the challenge holds an opaque directive.
DigestHeaderCommon(value) ==
    /\ starts_with(value, DigestSpace)
    /\ HasQuoted(value, K_username, digest.username)
    /\ HasQuoted(value, K_realm, digest.realm)
    /\ HasQuoted(value, K_nonce, digest.nonce)
    /\ HasQuoted(value, K_uri, digest.uri)
    /\ HasQuoted(value, K_response, digest.response)
    /\ IF K_opaque \in DOMAIN digest.challenge
       THEN HasQuoted(value, K_opaque, digest.challenge[K_opaque])
       ELSE ~HasDirective(value, K_opaque)

\* C14 (as claimed): the value produced starts with Digest and holds username, realm,
\* nonce, uri and response as quoted pairs; it holds an unquoted qop and a quoted nc
\* and a quoted cnonce exactly when the challenge's qop is not empty, and a quoted
\* opaque exactly when the challenge holds an opaque directive.
C14_HeaderWithQuotedNc ==
    \A r \in digest.result :
        r.ok =>
            /\ DigestHeaderCommon(r.value)
            /\ IF digest.qop # <<>>
               THEN /\ HasUnquoted(r.value, K_qop, digest.qop)
                    /\ HasQuoted(r.value, K_nc, digest.nc)
                    /\ HasQuoted(r.value, K_cnonce, digest.cnonce)
               ELSE /\ ~HasDirective(r.value, K_qop)
                    /\ ~HasDirective(r.value, K_nc)
                    /\ ~HasDirective(r.value, K_cnonce)

\* C14 (amended): as claimed, except that the nonce count is written without quotes:
\* when the challenge's qop is not empty the value holds the unquoted qop, the
\* unquoted nc=00000001 and the quoted cnonce, and none of the three otherwise.
C14_HeaderWithUnquotedNc ==
    \A r \in digest.result :
        r.ok =>
            /\ DigestHeaderCommon(r.value)
            /\ IF digest.qop # <<>>
               THEN /\ HasUnquoted(r.value, K_qop, digest.qop)
                    /\ HasUnquoted(r.value, K_nc, NonceCount)
                    /\ ~HasQuoted(r.value, K_nc, NonceCount)
                    /\ HasQuoted(r.value, K_cnonce, digest.cnonce)
               ELSE /\ ~HasDirective(r.value, K_qop)
                    /\ ~HasDirective(r.value, K_nc)
                    /\ ~HasDirective(r.value, K_cnonce)

\* The value for a challenge with qop=auth and an empty opaque has been returned.
C14_Witness ==
    /\ digest.pc = "done"
    /\ digest.www_auth = W_Loose
    /\ digest.qop = RFC_Qop
    /\ \E r \in digest.result : r.ok /\ HasDirective(r.value, K_nc) /\ HasDirective(r.value, K_opaque)

\* The parser as section 4.1 describes it.  A leading "Digest " is taken off once.
StripLeadingDigest(value) ==
    IF starts_with(value, DigestSpace) THEN SubSeq(value, Len(DigestSpace) + 1, Len(value)) ELSE value

\* One layer of surrounding double quotes is taken off: at most one quote at the
\* start and at most one at the end.
StripOneQuoteLayer(v) ==
    LET a == IF v # <<>> /\ Head(v) = "\"" THEN Tail(v) ELSE v
    IN IF a # <<>> /\ a[Len(a)] = "\"" THEN SubSeq(a, 1, Len(a) - 1) ELSE a

\* The segments are read in order; a segment without '=' is skipped, and a later value
\* replaces an earlier one of the same key.
RECURSIVE ReferenceInsert(_, _)
ReferenceInsert(segments, map) ==
    IF segments = <<>> THEN map
    ELSE LET eq == FindChar(Head(segments), "=", 1)
             key == trim(SubSeq(Head(segments), 1, eq - 1))
             val == StripOneQuoteLayer(trim(SubSeq(Head(segments), eq + 1, Len(Head(segments)))))
         IN ReferenceInsert(Tail(segments),
                IF eq = 0 THEN map
                ELSE [k \in (DOMAIN map) \cup {key} |-> IF k = key THEN val ELSE map[k]])

ReferenceChallenge(value) ==
    ReferenceInsert(Split(StripLeadingDigest(value), ","), [k \in {} |-> <<>>])

\* A directive of the reference mapping, or the empty text when it is missing.
ReferenceDirective(value, key) ==
    IF key \in DOMAIN ReferenceChallenge(value) THEN ReferenceChallenge(value)[key] ELSE <<>>

\* C15 (as claimed): for every header value the parser yields the mapping of the
\* reference (only a leading "Digest " stripped, split on ',', each segment split on
\* its first '=', key and value trimmed, one layer of surrounding quotes removed,
\* segments without '=' skipped); it raises no error, and realm, nonce and qop are
\* the mapping's values, or empty when the directive is missing.
C15_ParserMatchesReference ==
    digest.pc \notin {"idle", "parse"} =>
        /\ digest.challenge = ReferenceChallenge(digest.www_auth)
        /\ digest.realm = ReferenceDirective(digest.www_auth, K_realm)
        /\ digest.nonce = ReferenceDirective(digest.www_auth, K_nonce)
        /\ digest.qop = ReferenceDirective(digest.www_auth, K_qop)
        /\ digest.pc = "url" => digest.result = None

\* The texts joined by colons.
RECURSIVE JoinColon(_)
JoinColon(texts) ==
    IF Len(texts) = 1 THEN texts[1] ELSE texts[1] \o <<":">> \o JoinColon(Tail(texts))

\* C16: HA1 is the MD5 digest of username:realm:password; HA2 is the digest of
\* method:uri with the method as the caller wrote it, not upper-cased; the response is
\* the digest of HA1:nonce:nc:cnonce:qop:HA2 when the challenge's qop is not empty and
\* of HA1:nonce:HA2 otherwise.
C16_HashInputs ==
    /\ digest.pc \in {"ha2", "response", "header", "done"} /\ digest.result # Some([ok |-> FALSE, error |-> "Invalid URL"]) =>
          digest.ha1 = Md5Hex(JoinColon(<<digest.username, digest.realm, digest.password>>))
    /\ digest.pc \in {"response", "header", "done"} /\ digest.result # Some([ok |-> FALSE, error |-> "Invalid URL"]) =>
          /\ digest.ha2 = Md5Hex(JoinColon(<<digest.method, digest.uri>>))
          /\ digest.method # to_uppercase(digest.method) =>
                digest.ha2 # Md5Hex(JoinColon(<<to_uppercase(digest.method), digest.uri>>))
    /\ digest.pc \in {"header", "done"} /\ digest.result # Some([ok |-> FALSE, error |-> "Invalid URL"]) =>
          digest.response =
              IF digest.qop # <<>>
              THEN Md5Hex(JoinColon(<<digest.ha1, digest.nonce, <<"0","0","0","0","0","0","0","1">>,
                                      digest.cnonce, digest.qop, digest.ha2>>))
              ELSE Md5Hex(JoinColon(<<digest.ha1, digest.nonce, digest.ha2>>))

\* A call with the method written get and a challenge with qop=auth has computed its
\* response.
C16_Witness ==
    /\ digest.pc = "done"
    /\ digest.method = <<"g","e","t">>
    /\ digest.www_auth = W_DigestQop
    /\ digest.qop = RFC_Qop
    /\ Len(digest.response) = 32

IsDigestValue(value) == starts_with(value, DigestSpace)

\* The Digest Authorization values a request carries.
DigestAuthValues(wire) == SelectSeq(AuthValues(wire), IsDigestValue)

\* The text of the quoted directive key="..." of a header value (which holds it).
QuotedDirective(value, key) ==
    LET pat == <<" ">> \o key \o <<"=", "\"">>
        hits == {i \in 1..(Len(value) - Len(pat) + 1) : SubSeq(value, i, i + Len(pat) - 1) = pat}
        from == (CHOOSE i \in hits : \A j \in hits : i <= j) + Len(pat)
        to == FindChar(value, "\"", from)
    IN SubSeq(value, from, to - 1)

\* The sends of all calls that carry a Digest Authorization header, as (call, index).
DigestSends ==
    {ci \in Calls \X (1..2) :
        ci[2] <= Len(sent[ci[1]]) /\ DigestAuthValues(sent[ci[1]][ci[2]].request) # <<>>}

\* The server nonce under which such a send was made.
NonceOfSend(ci) == QuotedDirective(DigestAuthValues(sent[ci[1]][ci[2]].request)[1], K_nonce)

\* Every nonce count written in a Digest Authorization header is 00000001.
NonceCountIsFirst ==
    \A ci \in DigestSends :
        LET value == DigestAuthValues(sent[ci[1]][ci[2]].request)[1]
        IN HasDirective(value, K_nc) =>
              HasUnquoted(value, K_nc, <<"0","0","0","0","0","0","0","1">>)

\* C17 (as claimed): over the calls made, at most one sent request carries a Digest
\* Authorization header built from a given server nonce, and every nonce count is
\* 00000001.
C17_OneRequestPerServerNonce ==
    /\ \A a, b \in DigestSends : a # b => NonceOfSend(a) # NonceOfSend(b)
    /\ NonceCountIsFirst

\* C17 (amended): within one call at most one sent request carries a Digest
\* Authorization header; it is the real request, it carries one such header, built
\* from the nonce of the challenge the call's own probe obtained; and every nonce
\* count is 00000001.  Nothing is said across calls.
C17_OneRequestPerNoncePerCall ==
    /\ \A a, b \in DigestSends : (a # b /\ a[1] = b[1]) => NonceOfSend(a) # NonceOfSend(b)
    /\ \A ci \in DigestSends :
          /\ IsReal(sent[ci[1]][ci[2]])
          /\ Len(DigestAuthValues(sent[ci[1]][ci[2]].request)) = 1
          /\ ProbeReplied(ci[1])
          /\ HasQuoted(<<" ">> \o WwwAuthValues(Unwrap(challenge_response[ci[1]]))[1],
                       K_nonce, NonceOfSend(ci))
    /\ \A c \in Calls : Cardinality({ci \in DigestSends : ci[1] = c}) <= 1
    /\ NonceCountIsFirst

\* Both calls have sent their real request under a nonce count, after their probes
\* were answered with the same challenge.
C17_Witness ==
    /\ Cardinality(DigestSends) = 2
    /\ challenge_response[1] = challenge_response[2]
    /\ \A ci \in DigestSends :
          HasDirective(DigestAuthValues(sent[ci[1]][ci[2]].request)[1], K_nc)

\* The value written last for a header name among the writes (name, value), in order.
LastWritten(writes, name) ==
    LET at == {i \in 1..Len(writes) : writes[i][1] = name}
    IN writes[CHOOSE i \in at : \A j \in at : j <= i][2]

\* The values a request carries under a header name, in order.
ValuesOf(wire, name) ==
    LET hs == SelectSeq(wire.headers, LAMBDA h : h[1] = name) IN [i \in 1..Len(hs) |-> hs[i][2]]

\* The writes made to the headers of a request sent by call c: the caller's entries in
\* the order of the loop, then the Authorization header the negotiation attached, if
\* the request carries one more header than the caller supplied.
WritesOf(c, wire) ==
    CallerHeaders(request[c])
    \o (IF Len(wire.headers) > Len(CallerHeaders(request[c]))
        THEN <<wire.headers[Len(wire.headers)]>> ELSE <<>>)

\* C18 (as claimed): every header entry the caller supplied is on the probe and on
\* the real request with its value unchanged, and when two writes name the same header
\* (two supplied entries, or a supplied entry and the Authorization header attached by
\* the negotiation) the request carries only the value written last.
C18_HeadersVerbatimLastWriteWins ==
    \A c \in Calls :
        \A i \in 1..Len(sent[c]) :
            LET wire == sent[c][i].request
                writes == WritesOf(c, wire)
            IN ~wire.err =>
                  \A k \in 1..Len(writes) :
                      ValuesOf(wire, writes[k][1]) = <<LastWritten(writes, writes[k][1])>>

\* The headers a request sent by call c carries beyond those the caller supplied.
Attached(c, wire) ==
    SubSeq(wire.headers, Len(CallerHeaders(request[c])) + 1, Len(wire.headers))

\* C19: the negotiation attaches at most one header per call, an Authorization header
\* on the real request and none on the probe; a Basic one only if both credentials
\* are present and the probe failed at the transport, and then of the call's own
\* username and password; a Digest one only if the probe was answered 401 with a
\* WWW-Authenticate value that starts with Digest; never both.
C19_OneAuthHeaderForMatchingOutcome ==
    \A c \in Calls :
        \A i \in 1..Len(sent[c]) :
            LET wire == sent[c][i].request
                att == Attached(c, wire)
            IN /\ IsProbe(sent[c][i]) => att = <<>>
               /\ Len(att) <= 1
               /\ \A k \in 1..Len(att) :
                     /\ att[k][1] = AUTHORIZATION
                     /\ starts_with(att[k][2], BasicSpace) \/ starts_with(att[k][2], DigestSpace)
                     /\ starts_with(att[k][2], BasicSpace) =>
                           /\ HasCredentials(request[c])
                           /\ ProbeFailed(c)
                           /\ IsBasicFor(att[k][2], Unwrap(request[c].username),
                                         Unwrap(request[c].password))
                     /\ starts_with(att[k][2], DigestSpace) =>
                           /\ HasCredentials(request[c])
                           /\ ProbeReplied(c)
                           /\ Unwrap(challenge_response[c]).status = 401
                           /\ AnnouncesDigest(Unwrap(challenge_response[c]))
               /\ \A m, n \in 1..Len(wire.headers) :
                     ~(starts_with(wire.headers[m][2], BasicSpace)
                       /\ starts_with(wire.headers[n][2], DigestSpace))

\* The probe was answered 401 with a Digest challenge and the real request has gone
\* out with the one Digest header attached after the caller's own Authorization.
C19_Witness ==
    \E c \in Calls :
        /\ RealSends(c) # <<>>
        /\ CallerAuthValues(request[c]) # <<>>
        /\ Len(Attached(c, RealSends(c)[1].request)) = 1
        /\ starts_with(Attached(c, RealSends(c)[1].request)[1][2], DigestSpace)

\* C20 (as claimed): every call with both credentials and a supported method invokes
\* the transport send exactly twice, the probe and then the real request, whatever
\* the probe's outcome (a failure, 401, or another status such as 200), and the two
\* requests have the same method, URL, body and caller's headers; every call with a
\* supported method and without both credentials invokes it exactly once.
C20_TwoSendsWithCredentials ==
    \A c \in Calls :
        MethodSupported(request[c].method) =>
            /\ Len(sent[c]) <= (IF HasCredentials(request[c]) THEN 2 ELSE 1)
            /\ Ended(c) =>
                  IF HasCredentials(request[c])
                  THEN /\ Len(sent[c]) = 2
                       /\ IsProbe(sent[c][1]) /\ IsReal(sent[c][2])
                       /\ challenge_response[c] # None
                       /\ sent[c][2].request.method = sent[c][1].request.method
                       /\ sent[c][2].request.url = sent[c][1].request.url
                       /\ sent[c][2].request.body = sent[c][1].request.body
                       /\ SubSeq(sent[c][2].request.headers, 1, Len(sent[c][1].request.headers))
                             = sent[c][1].request.headers
                  ELSE Len(sent[c]) = 1 /\ IsReal(sent[c][1])

====
